---- MODULE Spec2Model ----
(***************************************************************************)
(* networkx/algorithms/neighbor_degree.py                                  *)
(*                                                                         *)
(* Average neighbor degree (per node) and average degree connectivity     *)
(* (per degree class), with their in/out-degree variants.                  *)
(*                                                                         *)
(* A call is modelled step by step: the entry point (directedness guard    *)
(* and set-up), one step per iteration of the node loop, and the return    *)
(* (for the connectivity functions: the final loop over dsum).             *)
(*                                                                         *)
(* Python floats are modelled as exact rationals <<num, den>> in lowest    *)
(* terms with den > 0.  Every sum the code forms is a sum of products of   *)
(* integers (edge weights are taken to be positive integers), so dsum and  *)
(* dnorm hold whole numbers and only the final division leaves the         *)
(* integers.                                                               *)
(***************************************************************************)
EXTENDS Integers, Sequences, FiniteSets, TLC

VARIABLES G, pc, fn, nodes, weighted, todo, avg_nbr_deg, dsum, dnorm, dc, error

vars == <<G, pc, fn, nodes, weighted, todo, avg_nbr_deg, dsum, dnorm, dc, error>>

-----------------------------------------------------------------------------
(* Bounds of the explored inputs *)

NumNodes == 3       \* nodes of the enumerated graphs: 0 .. NumNodes-1
MaxEdges == 2       \* edges of an enumerated graph (self-loops allowed)
MaxWeight == 2      \* explicit edge weights are drawn from 2 .. MaxWeight
MaxSel == 2         \* length of an explicit node selection

(* Constants of the documented examples *)
PathLen == 4        \* nx.path_graph(4)
W01 == 5            \* G.edge[0][1]['weight'] = 5
W23 == 3            \* G.edge[2][3]['weight'] = 3
W12 == 3            \* G.edge[1][2]['weight'] = 3

-----------------------------------------------------------------------------
(* Numbers *)

RECURSIVE GCD(_, _)
GCD(a, b) == IF b = 0 THEN a ELSE GCD(b, a % b)

Abs(x) == IF x < 0 THEN -x ELSE x

\* the rational n/d (d # 0) in lowest terms, den > 0
Rat(n, d) ==
    LET g == GCD(Abs(n), Abs(d))
        s == IF d < 0 THEN -1 ELSE 1
    IN  <<s * (n \div g), Abs(d) \div g>>

\* float(x) of a whole number x
Float(x) == Rat(x, 1)

-----------------------------------------------------------------------------
(* Dictionaries *)

EmptyMap == [x \in {} |-> 0]

\* d[k] = v
Put(d, k, v) == [x \in DOMAIN d \cup {k} |-> IF x = k THEN v ELSE d[x]]

\* defaultdict(float): a missing key reads as 0.0
Get0(d, k) == IF k \in DOMAIN d THEN d[k] ELSE 0

\* sum(d.values())
RECURSIVE SumValues(_)
SumValues(d) ==
    IF DOMAIN d = {} THEN 0
    ELSE LET x == CHOOSE x \in DOMAIN d : TRUE
         IN  d[x] + SumValues([y \in DOMAIN d \ {x} |-> d[y]])

\* the items of a sequence that satisfy membership in S, in order
RECURSIVE FilterIn(_, _)
FilterIn(s, S) ==
    IF s = <<>> THEN <<>>
    ELSE IF Head(s) \in S THEN <<Head(s)>> \o FilterIn(Tail(s), S)
         ELSE FilterIn(Tail(s), S)

\* a sequence without its repeated items (first occurrence kept)
RECURSIVE Dedup(_)
Dedup(s) ==
    IF s = <<>> THEN <<>>
    ELSE LET r == Dedup(SubSeq(s, 1, Len(s) - 1))
             x == s[Len(s)]
         IN  IF \E i \in 1..Len(r) : r[i] = x THEN r ELSE Append(r, x)

-----------------------------------------------------------------------------
(* The graph collaborator *)

\* G.is_directed()
IsDirected(g) == g.directed

\* G[n]: the neighbor mapping of n (its successors in a directed graph)
Adj(g, n) == {v \in g.nodes : <<n, v>> \in g.edge}

\* the predecessors of n
Pred(g, n) == {u \in g.nodes : <<u, n>> \in g.edge}

\* G[n][nbr].get('weight',1)
EdgeWeight(g, n, nbr) ==
    IF <<n, nbr>> \in DOMAIN g.weight THEN g.weight[<<n, nbr>>] ELSE 1

\* weight of an edge as the degree accessor counts it
DegWeight(g, u, v, w) == IF w THEN EdgeWeight(g, u, v) ELSE 1

OutDegree(g, n, w) == SumValues([v \in Adj(g, n) |-> DegWeight(g, n, v, w)])

InDegree(g, n, w) == SumValues([u \in Pred(g, n) |-> DegWeight(g, u, n, w)])

\* G.degree(n): in a directed graph in + out; in an undirected graph a
\* self-loop is counted twice
PlainDegree(g, n, w) ==
    IF g.directed THEN InDegree(g, n, w) + OutDegree(g, n, w)
    ELSE OutDegree(g, n, w) + (IF n \in Adj(g, n) THEN DegWeight(g, n, n, w) ELSE 0)

\* degree_method(n, weighted=w) for one node
Degree(g, dm, n, w) ==
    CASE dm = "in_degree"  -> InDegree(g, n, w)
      [] dm = "out_degree" -> OutDegree(g, n, w)
      [] OTHER             -> PlainDegree(g, n, w)

\* degree_method(nbunch): the batched form, a dict node -> unweighted degree
DegreeDict(g, dm, S) == [v \in S \cap g.nodes |-> Degree(g, dm, v, FALSE)]

\* the graph's nodes in iteration order
RECURSIVE UpTo(_)
UpTo(n) == IF n = 0 THEN <<>> ELSE Append(UpTo(n - 1), n - 1)

NodeOrder(g) == UpTo(Cardinality(g.nodes))

\* G.nbunch_iter(nodes): all nodes when nodes is None, else the given nodes
\* that are in the graph
NbunchIter(g, nd) == IF nd.isNone THEN NodeOrder(g) ELSE FilterIn(nd.items, g.nodes)

-----------------------------------------------------------------------------
(* Entry points and their degree accessor *)

NbrFns == {"average_neighbor_degree", "average_neighbor_in_degree",
           "average_neighbor_out_degree"}

ConnFns == {"average_degree_connectivity", "average_in_degree_connectivity",
            "average_out_degree_connectivity"}

\* degree_method = G.degree / G.in_degree / G.out_degree
DegreeMethod(f) ==
    CASE f \in {"average_neighbor_in_degree", "average_in_degree_connectivity"}
           -> "in_degree"
      [] f \in {"average_neighbor_out_degree", "average_out_degree_connectivity"}
           -> "out_degree"
      [] OTHER -> "degree"

\* the functions that start with "if not G.is_directed(): raise"
HasDirectedGuard(f) ==
    f \in {"average_neighbor_in_degree", "average_neighbor_out_degree",
           "average_in_degree_connectivity", "average_out_degree_connectivity"}

\* mutant: average_out_degree_connectivity lacks the guard
NotDefinedFor_NoGuardOutConn(f, g) ==
    HasDirectedGuard(f) /\ f # "average_out_degree_connectivity" /\ ~IsDirected(g)

\* the guard's condition: the call raises
NotDefinedFor(f, g) == HasDirectedGuard(f) /\ ~IsDirected(g)

-----------------------------------------------------------------------------
(* _average_nbr_deg, one node *)

\* mutant: the node's own degree in place of each neighbor's
NbrDeg_OwnDegree(g, dm, n) == [v \in Adj(g, n) |-> Degree(g, dm, n, FALSE)]

\* nbrdeg = degree_method(G[n])
NbrDeg(g, dm, n) == DegreeDict(g, dm, Adj(g, n))

\* mutant: the edge weight is not applied
NbrV_Unscaled(g, dm, n, w) == NbrDeg(g, dm, n)

\* nbrv: the neighbors' degrees, scaled by the edge weight when weighted
NbrV(g, dm, n, w) ==
    LET nbrdeg == NbrDeg(g, dm, n)
    IN  [nbr \in DOMAIN nbrdeg |->
            IF w THEN EdgeWeight(g, n, nbr) * nbrdeg[nbr] ELSE nbrdeg[nbr]]

\* mutant: 0.0 instead of the undivided sum when norm is not positive
Normalized_ZeroWithoutNorm(total, norm) ==
    IF norm > 0 THEN Rat(total, norm) ELSE Float(0)

\* avg_nbr_deg[n] = float(sum(nbrv)); if norm > 0: avg_nbr_deg[n] /= norm
Normalized(total, norm) == IF norm > 0 THEN Rat(total, norm) ELSE Float(total)

AvgNbrDegOf(g, dm, n, w) ==
    Normalized(SumValues(NbrV(g, dm, n, w)), Degree(g, dm, n, w))

-----------------------------------------------------------------------------
(* _avg_deg_conn *)

\* node_iter: G itself when nodes is None, else G.nbunch_iter(nodes)
NodeIter(g, nd) == IF nd.isNone THEN NodeOrder(g) ELSE NbunchIter(g, nd)

\* the keys of degree_method(node_iter), a dict: each node once
ConnItems(g, nd) == Dedup(NodeIter(g, nd))

\* mutant: dnorm[k] += k in the weighted branch too
NormTerm_AlwaysK(g, dm, n, k, w) == k

\* mutant: the unweighted branch counts the node instead of its degree
NormTerm_CountsNodes(g, dm, n, k, w) == IF w THEN Degree(g, dm, n, w) ELSE 1

\* what one iteration adds to dnorm[k]
NormTerm(g, dm, n, k, w) == IF w THEN Degree(g, dm, n, w) ELSE k

\* "if avg > 0: dc[k] /= dnorm[k]" divides by zero
DividesByZero(ds, dn) == \E k \in DOMAIN ds : ds[k] > 0 /\ Get0(dn, k) = 0

\* dc[k] = avg, divided by dnorm[k] when avg > 0
ConnValue(avg, norm) == IF avg > 0 THEN Rat(avg, norm) ELSE Float(avg)

\* mutant: a degree with a zero sum gets no entry
FinalDc_SkipsZeroSum(ds, dn) ==
    [k \in {x \in DOMAIN ds : ds[x] > 0} |-> ConnValue(ds[k], Get0(dn, k))]

FinalDc(ds, dn) == [k \in DOMAIN ds |-> ConnValue(ds[k], Get0(dn, k))]

-----------------------------------------------------------------------------
(* Inputs *)

NoneSel == [isNone |-> TRUE, items |-> <<>>]

\* node selections: None, or a sequence over the graph's nodes and one
\* identifier that is not a node
Sels(g) ==
    {NoneSel} \cup
    {[isNone |-> FALSE, items |-> s] :
        s \in UNION {[1..k -> 0..Cardinality(g.nodes)] : k \in 0..MaxSel}}

MkGraph(d, E, wf) ==
    [directed |-> d,
     nodes    |-> 0..(NumNodes - 1),
     edge     |-> IF d THEN E ELSE E \cup {<<e[2], e[1]>> : e \in E},
     weight   |-> IF d THEN wf
                  ELSE [e \in DOMAIN wf \cup {<<x[2], x[1]>> : x \in DOMAIN wf} |->
                           IF e \in DOMAIN wf THEN wf[e] ELSE wf[<<e[2], e[1]>>]]]

Pairs(d) ==
    {e \in (0..(NumNodes - 1)) \X (0..(NumNodes - 1)) : d \/ e[1] <= e[2]}

Weights == 2..MaxWeight

\* nx.path_graph(4) with the listed weights set
PathGraph(wf) ==
    LET E == {<<i, i + 1>> : i \in 0..(PathLen - 2)}
    IN  [directed |-> FALSE,
         nodes    |-> 0..(PathLen - 1),
         edge     |-> E \cup {<<e[2], e[1]>> : e \in E},
         weight   |-> [e \in DOMAIN wf \cup {<<x[2], x[1]>> : x \in DOMAIN wf} |->
                          IF e \in DOMAIN wf THEN wf[e] ELSE wf[<<e[2], e[1]>>]]]

PathPlain == PathGraph(EmptyMap)

\* G=nx.DiGraph(); G.add_path([0,1,2,3])
PathDi ==
    [directed |-> TRUE,
     nodes    |-> 0..(PathLen - 1),
     edge     |-> {<<i, i + 1>> : i \in 0..(PathLen - 2)},
     weight   |-> EmptyMap]

PathW0123 == PathGraph((<<0, 1>> :> W01) @@ (<<2, 3>> :> W23))
PathW12 == PathGraph(<<1, 2>> :> W12)

ExampleGraphs == {PathPlain, PathW0123, PathW12, PathDi}

-----------------------------------------------------------------------------
(* The state machine *)

Idle ==
    /\ pc = "idle" /\ fn = "" /\ nodes = NoneSel /\ weighted = FALSE
    /\ todo = <<>> /\ avg_nbr_deg = EmptyMap /\ dsum = EmptyMap
    /\ dnorm = EmptyMap /\ dc = EmptyMap /\ error = ""

\* every graph within the bounds, and the graphs of the documented examples
Init ==
    /\ \/ \E d \in BOOLEAN :
            \E E \in {X \in SUBSET Pairs(d) : Cardinality(X) <= MaxEdges} :
              \E W \in SUBSET E : \E wf \in [W -> Weights] :
                G = MkGraph(d, E, wf)
       \/ G \in ExampleGraphs
    /\ Idle

InitPath ==
    /\ G \in ExampleGraphs
    /\ Idle

\* an entry point: the directedness guard, then the set-up of the loop
Call(f, nd, w) ==
    /\ pc = "idle"
    /\ fn' = f /\ nodes' = nd /\ weighted' = w
    /\ IF NotDefinedFor(f, G)
       THEN /\ pc' = "raised"
            /\ error' = "NetworkXError"
            /\ UNCHANGED <<todo, avg_nbr_deg, dsum, dnorm, dc>>
       ELSE /\ pc' = IF f \in NbrFns THEN "nbr_loop" ELSE "conn_loop"
            /\ todo' = IF f \in NbrFns THEN NbunchIter(G, nd) ELSE ConnItems(G, nd)
            /\ avg_nbr_deg' = EmptyMap
            /\ dsum' = EmptyMap /\ dnorm' = EmptyMap
            /\ UNCHANGED <<dc, error>>
    /\ UNCHANGED G

average_neighbor_degree(nd, w) == Call("average_neighbor_degree", nd, w)
average_neighbor_in_degree(nd, w) == Call("average_neighbor_in_degree", nd, w)
average_neighbor_out_degree(nd, w) == Call("average_neighbor_out_degree", nd, w)
average_degree_connectivity(nd, w) == Call("average_degree_connectivity", nd, w)
average_in_degree_connectivity(nd, w) == Call("average_in_degree_connectivity", nd, w)
average_out_degree_connectivity(nd, w) == Call("average_out_degree_connectivity", nd, w)

\* _average_nbr_deg: one iteration of "for n in G.nbunch_iter(nodes)"
AvgNbrDegStep ==
    /\ pc = "nbr_loop" /\ todo # <<>>
    /\ LET n == Head(todo)
       IN  avg_nbr_deg' = Put(avg_nbr_deg, n, AvgNbrDegOf(G, DegreeMethod(fn), n, weighted))
    /\ todo' = Tail(todo)
    /\ UNCHANGED <<G, pc, fn, nodes, weighted, dsum, dnorm, dc, error>>

\* _average_nbr_deg: return avg_nbr_deg
AvgNbrDegReturn ==
    /\ pc = "nbr_loop" /\ todo = <<>>
    /\ pc' = "returned"
    /\ UNCHANGED <<G, fn, nodes, weighted, todo, avg_nbr_deg, dsum, dnorm, dc, error>>

\* _avg_deg_conn: one iteration of "for n,k in degree_method(node_iter).items()"
AvgDegConnStep ==
    /\ pc = "conn_loop" /\ todo # <<>>
    /\ LET dm == DegreeMethod(fn)
           n  == Head(todo)
           k  == Degree(G, dm, n, FALSE)
       IN  /\ dnorm' = Put(dnorm, k, Get0(dnorm, k) + NormTerm(G, dm, n, k, weighted))
           /\ dsum' = Put(dsum, k, Get0(dsum, k) + SumValues(NbrV(G, dm, n, weighted)))
    /\ todo' = Tail(todo)
    /\ UNCHANGED <<G, pc, fn, nodes, weighted, avg_nbr_deg, dc, error>>

\* _avg_deg_conn: the loop over dsum.items() and the return
AvgDegConnFinish ==
    /\ pc = "conn_loop" /\ todo = <<>>
    /\ IF DividesByZero(dsum, dnorm)
       THEN pc' = "raised" /\ error' = "ZeroDivisionError" /\ UNCHANGED dc
       ELSE pc' = "returned" /\ dc' = FinalDc(dsum, dnorm) /\ UNCHANGED error
    /\ UNCHANGED <<G, fn, nodes, weighted, todo, avg_nbr_deg, dsum, dnorm>>

Next ==
    \/ \E nd \in Sels(G), w \in BOOLEAN : average_neighbor_degree(nd, w)
    \/ \E nd \in Sels(G), w \in BOOLEAN : average_neighbor_in_degree(nd, w)
    \/ \E nd \in Sels(G), w \in BOOLEAN : average_neighbor_out_degree(nd, w)
    \/ \E nd \in Sels(G), w \in BOOLEAN : average_degree_connectivity(nd, w)
    \/ \E nd \in Sels(G), w \in BOOLEAN : average_in_degree_connectivity(nd, w)
    \/ \E nd \in Sels(G), w \in BOOLEAN : average_out_degree_connectivity(nd, w)
    \/ AvgNbrDegStep
    \/ AvgNbrDegReturn
    \/ AvgDegConnStep
    \/ AvgDegConnFinish

Spec == Init /\ [][Next]_vars

\* the documented path-graph examples
SpecPath == InitPath /\ [][Next]_vars

-----------------------------------------------------------------------------
(* Vocabulary of the properties *)

Zero == Float(0)

RatAdd(a, b) == Rat(a[1] * b[2] + b[1] * a[2], a[2] * b[2])

RatDivInt(a, k) == Rat(a[1], a[2] * k)

Range(s) == {s[i] : i \in 1..Len(s)}

\* the distinct selected nodes that are in the graph
Selected == IF nodes.isNone THEN G.nodes ELSE Range(nodes.items) \cap G.nodes

\* the selected nodes whose degree under the accessor dm is k
DegreeClass(dm, k) == {n \in Selected : Degree(G, dm, n, FALSE) = k}

\* the call has passed its guard and its node loop has run to the end
LoopDone ==
    \/ pc = "returned"
    \/ pc = "raised" /\ error # "NetworkXError"
    \/ pc \in {"nbr_loop", "conn_loop"} /\ todo = <<>>

\* the call has passed its guard and has ended, by a return or by an error
CallEnded == pc = "returned" \/ (pc = "raised" /\ error # "NetworkXError")

\* sum of the rationals d[x], x in DOMAIN d
RECURSIVE RatSumValues(_)
RatSumValues(d) ==
    IF DOMAIN d = {} THEN Zero
    ELSE LET x == CHOOSE x \in DOMAIN d : TRUE
         IN  RatAdd(d[x], RatSumValues([y \in DOMAIN d \ {x} |-> d[y]]))

\* the edges of the path 0-1-2-3, both orientations
PathEdges == PathPlain.edge

-----------------------------------------------------------------------------
(* C1: on an undirected graph every in/out variant, for every selection   *)
(* and weighted flag, ends in the error raised by the directedness guard,  *)
(* and it does so before any node is enumerated or anything accumulated:   *)
(* all accumulators are still empty and no mapping is returned.            *)
C1_GuardRaisesBeforeAccumulation ==
    (pc # "idle" /\ ~G.directed /\ DegreeMethod(fn) \in {"in_degree", "out_degree"})
        => /\ pc = "raised" /\ error = "NetworkXError"
           /\ todo = <<>> /\ avg_nbr_deg = EmptyMap
           /\ dsum = EmptyMap /\ dnorm = EmptyMap /\ dc = EmptyMap

C1_Witness ==
    /\ pc = "raised" /\ error = "NetworkXError" /\ ~G.directed
    /\ fn = "average_out_degree_connectivity" /\ weighted
    /\ ~nodes.isNone /\ Selected # {} /\ G.edge # {}

-----------------------------------------------------------------------------
(* C2 as stated: in each of the three neighbor-degree variants a selected  *)
(* node whose degree under the variant's accessor is zero maps to 0.0.     *)
C2_ZeroDegreeGivesZero ==
    (pc = "returned" /\ fn \in NbrFns)
        => \A n \in DOMAIN avg_nbr_deg :
              Degree(G, DegreeMethod(fn), n, weighted) = 0 => avg_nbr_deg[n] = Zero

(* C2 amended: a selected node with an empty neighbor mapping maps to 0.0;  *)
(* that covers every node of zero degree in the plain and out variants.    *)
(* In the in variant a node of in-degree zero that has successors maps to  *)
(* the undivided sum of its successors' (weight-scaled) in-degrees, which  *)
(* is positive.                                                            *)
C2_EmptyNeighborhoodGivesZero ==
    (pc = "returned" /\ fn \in NbrFns)
        => \A n \in DOMAIN avg_nbr_deg :
              LET dm == DegreeMethod(fn)
                  zero == Degree(G, dm, n, weighted) = 0
              IN  /\ Adj(G, n) = {} => avg_nbr_deg[n] = Zero
                  /\ (zero /\ dm # "in_degree") => (Adj(G, n) = {} /\ avg_nbr_deg[n] = Zero)
                  /\ (zero /\ dm = "in_degree" /\ Adj(G, n) # {})
                        => /\ avg_nbr_deg[n][2] = 1
                           /\ avg_nbr_deg[n][1] =
                                SumValues([v \in Adj(G, n) |->
                                    DegWeight(G, n, v, weighted) * InDegree(G, v, FALSE)])
                           /\ avg_nbr_deg[n][1] > 0

C2_Witness ==
    /\ pc = "returned" /\ fn = "average_neighbor_in_degree"
    /\ \E n \in DOMAIN avg_nbr_deg :
          InDegree(G, n, weighted) = 0 /\ Adj(G, n) # {} /\ avg_nbr_deg[n] # Zero
    /\ \E n \in DOMAIN avg_nbr_deg :
          Adj(G, n) = {} /\ InDegree(G, n, FALSE) > 0 /\ avg_nbr_deg[n] = Zero

-----------------------------------------------------------------------------
(* C3 as stated: every connectivity call that passes the directedness      *)
(* guard completes and returns a mapping, with no error, and every degree  *)
(* value whose normalizer norm[k] is zero maps to 0.0.                     *)
C3_ConnectivityNeverFails ==
    (fn \in ConnFns /\ LoopDone)
        => /\ pc # "raised"
           /\ pc = "returned" =>
                \A k \in DOMAIN dc : Get0(dnorm, k) = 0 => dc[k] = Zero

-----------------------------------------------------------------------------
(* C4: average_degree_connectivity always returns, and the keys of its     *)
(* result are exactly the unweighted degrees of the selected nodes; on the *)
(* unweighted path 0-1-2-3 with all nodes the result is {1: 2.0, 2: 1.5}.  *)
C4_KeysAreSelectedDegrees ==
    (fn = "average_degree_connectivity" /\ LoopDone)
        => /\ pc # "raised"
           /\ pc = "returned" =>
                /\ DOMAIN dc = {PlainDegree(G, n, FALSE) : n \in Selected}
                /\ (G.edge = PathEdges /\ ~G.directed /\ ~weighted /\ Selected = G.nodes)
                      => dc = (1 :> Rat(2, 1)) @@ (2 :> Rat(3, 2))

C4_Witness ==
    /\ pc = "returned" /\ fn = "average_degree_connectivity"
    /\ G = PathPlain /\ ~weighted /\ nodes.isNone
    /\ dc = (1 :> Rat(2, 1)) @@ (2 :> Rat(3, 2))

-----------------------------------------------------------------------------
(* C5 as stated: unweighted average_neighbor_degree on the path 0-1-2-3    *)
(* with all nodes returns {0: 1.0, 1: 1.5, 2: 1.5, 3: 1.0}.                *)
C5_PathEndsAreOne ==
    (pc = "returned" /\ fn = "average_neighbor_degree" /\ ~weighted
        /\ G.edge = PathEdges /\ ~G.directed /\ nodes.isNone)
        => avg_nbr_deg = (0 :> Rat(1, 1)) @@ (1 :> Rat(3, 2)) @@
                         (2 :> Rat(3, 2)) @@ (3 :> Rat(1, 1))

(* C5 amended: the result is {0: 2.0, 1: 1.5, 2: 1.5, 3: 2.0}: the only    *)
(* neighbor of an end node is an inner node, of degree 2.                  *)
C5_PathEndsAreTwo ==
    (pc = "returned" /\ fn = "average_neighbor_degree" /\ ~weighted
        /\ G.edge = PathEdges /\ ~G.directed /\ nodes.isNone)
        => avg_nbr_deg = (0 :> Rat(2, 1)) @@ (1 :> Rat(3, 2)) @@
                         (2 :> Rat(3, 2)) @@ (3 :> Rat(2, 1))

C5_Witness ==
    /\ pc = "returned" /\ fn = "average_neighbor_degree" /\ ~weighted
    /\ G = PathW0123 /\ nodes.isNone
    /\ DOMAIN avg_nbr_deg = 0..3 /\ avg_nbr_deg[0] = Rat(2, 1)

-----------------------------------------------------------------------------
(* C6: on the path 0-1-2-3 with weight 5 on (0,1), 3 on (2,3) and none on  *)
(* (1,2), weighted average_neighbor_degree over all nodes returns exactly  *)
(* {0: 2, 1: 7/6, 2: 5/4, 3: 2}.                                           *)
C6_WeightedPath ==
    (pc = "returned" /\ fn = "average_neighbor_degree" /\ weighted
        /\ G = PathW0123 /\ nodes.isNone)
        => avg_nbr_deg = (0 :> <<2, 1>>) @@ (1 :> <<7, 6>>) @@
                         (2 :> <<5, 4>>) @@ (3 :> <<2, 1>>)

C6_Witness ==
    /\ pc = "returned" /\ fn = "average_neighbor_degree" /\ weighted
    /\ G = PathW0123 /\ nodes.isNone
    /\ <<1, 2>> \notin DOMAIN G.weight
    /\ avg_nbr_deg[1] = <<7, 6>>

-----------------------------------------------------------------------------
(* C7: in every connectivity call, once the accumulation loop has          *)
(* finished, the sum of norm[k] over all keys k equals the sum, over the   *)
(* distinct selected nodes in the graph, of the node's degree under the    *)
(* active accessor and the call's weighted flag.                           *)
C7_NormMassIsDegreeMass ==
    (fn \in ConnFns /\ LoopDone)
        => SumValues(dnorm) =
             SumValues([n \in Selected |-> Degree(G, DegreeMethod(fn), n, weighted)])

C7_Witness ==
    /\ fn = "average_in_degree_connectivity" /\ pc = "conn_loop" /\ todo = <<>>
    /\ weighted /\ ~nodes.isNone
    /\ Len(nodes.items) > Cardinality(Selected) /\ Cardinality(Selected) > 0
    /\ SumValues(dnorm) > Cardinality(DOMAIN dnorm) /\ G.weight # EmptyMap
    /\ SumValues(dnorm) #
         SumValues([n \in Selected |-> Degree(G, DegreeMethod(fn), n, FALSE)])

-----------------------------------------------------------------------------
(* C8 as stated: unweighted average_neighbor_degree gives every selected   *)
(* node i with a non-empty neighbor set N(i) the arithmetic mean of its    *)
(* neighbors' degrees: (1/|N(i)|) * sum of k_j over j in N(i).             *)
C8_MeanOverNeighbors ==
    (pc = "returned" /\ fn = "average_neighbor_degree" /\ ~weighted)
        => \A i \in DOMAIN avg_nbr_deg :
              Adj(G, i) # {}
                => avg_nbr_deg[i] =
                     Rat(SumValues([j \in Adj(G, i) |-> PlainDegree(G, j, FALSE)]),
                         Cardinality(Adj(G, i)))

-----------------------------------------------------------------------------
(* C9 as stated: every connectivity call that passes the guard returns a   *)
(* result with, for every degree k of a selected node, result[k] = sum[k]  *)
(* if sum[k] = 0 and sum[k]/norm[k] otherwise, sum[k] and norm[k] being    *)
(* the neighbor-degree contributions and the own degrees pooled over the   *)
(* selected nodes of degree k.                                             *)
C9_ResultIsPooledQuotient ==
    (fn \in ConnFns /\ CallEnded)
        => /\ pc = "returned"
           /\ LET dm == DegreeMethod(fn)
              IN  \A k \in {Degree(G, dm, n, FALSE) : n \in Selected} :
                     LET sum  == SumValues([n \in DegreeClass(dm, k) |->
                                     SumValues([j \in Adj(G, n) |->
                                         DegWeight(G, n, j, weighted) * Degree(G, dm, j, FALSE)])])
                         norm == SumValues([n \in DegreeClass(dm, k) |->
                                     Degree(G, dm, n, weighted)])
                     IN  /\ k \in DOMAIN dc
                         /\ dc[k] = IF sum = 0 THEN Float(sum) ELSE Rat(sum, norm)

-----------------------------------------------------------------------------
(* C10: on an undirected graph, unweighted, every value result[k] of       *)
(* average_degree_connectivity is the arithmetic mean, over the selected   *)
(* nodes n of degree k, of average_neighbor_degree's value for n.          *)
C10_PooledIsMeanOfPerNode ==
    (pc = "returned" /\ fn = "average_degree_connectivity" /\ ~weighted /\ ~G.directed)
        => \A k \in DOMAIN dc :
              LET class == DegreeClass("degree", k)
              IN  /\ class # {}
                  /\ dc[k] = RatDivInt(
                       RatSumValues([n \in class |-> AvgNbrDegOf(G, "degree", n, FALSE)]),
                       Cardinality(class))

C10_Witness ==
    /\ pc = "returned" /\ fn = "average_degree_connectivity" /\ ~weighted /\ ~G.directed
    /\ \E k \in DOMAIN dc : k > 0 /\ Cardinality(DegreeClass("degree", k)) >= 2
    /\ Cardinality(DOMAIN dc) >= 2
    /\ \E n \in G.nodes : <<n, n>> \in G.edge

====
